---- MODULE Spec2Model ----
(***************************************************************************)
(* camera_scout: CameraResearcher (src/camera_scout/detector.py).          *)
(*                                                                         *)
(* The researcher is built once (__init__): it loads the type table, runs  *)
(* the device lister, parses its text, classifies every device, probes the *)
(* formats of every classified device, groups the devices into per-type    *)
(* stacks, and then serves get_camera calls.                               *)
(*                                                                         *)
(* Conventions of the model.                                               *)
(*  - A Python str is a sequence of one-character strings, so that strip,  *)
(*    lower, "in", startswith and the regular expressions are computed     *)
(*    character by character.  Type labels (dictionary keys, only ever     *)
(*    compared for equality) are TLA+ strings.                             *)
(*  - A Python value that may be absent or empty-of-another-type (None, an *)
(*    unassigned attribute, the initial [] of "_id", the initial {} of     *)
(*    "cam_param") is a sequence of length at most one: <<>> when absent,  *)
(*    <<v>> when present.  The None that _find_type returns is the string  *)
(*    None, which no table of the model uses as a label.                   *)
(*  - The result of a call that may raise is [exc, val]: exc = "" and the  *)
(*    value on return, exc = the exception's name when it raises.          *)
(*  - A float is its value in thousandths (the listings of the model carry *)
(*    at most three fractional digits).                                    *)
(***************************************************************************)
EXTENDS Integers, Sequences, FiniteSets, TLC

VARIABLES
    pc,             \* where construction stands, then "ready" or "raised"
    exc,            \* the exception __init__ raised to its caller, "" if none
    NO_CAM_FOUND,   \* self.__NO_CAM_FOUND
    search_paths,   \* what the paths of search_paths held when _load_config looked:
                    \* <<>> before, then <<files>>
    config,         \* self.__config: <<>> until loaded, then <<table>>
    listing,        \* how the lister's run ended: <<>> until it ran, then <<run>>
    detailed_info,  \* self._detailed_info: <<>> for unassigned/None, else <<list>>
    dev_i,          \* the device the loop of _get_best_cam_param is at
    stacks,         \* self._camera_stacks_by_group: <<>> unassigned, else <<dict>>
    lister_calls,   \* runs of "v4l2-ctl --list-devices"
    probe_calls,    \* runs of "v4l2-ctl -d <path> --list-formats-ext", in order:
                    \* <<[dev, path, codec, specs]>>, specs what _get_camera_specs returned
    returned,       \* what get_camera has returned but None, in call order: <<[arg, cam]>>
    last_call,      \* the latest get_camera call: <<>> or <<[arg, exc, ret]>>
    h_pc, h_in, h_out   \* a single application of one pure function

vars == <<pc, exc, NO_CAM_FOUND, search_paths, config, listing, detailed_info, dev_i, stacks,
          lister_calls, probe_calls, returned, last_call, h_pc, h_in, h_out>>

(***************************************************************************)
(* Bounds of the model.                                                    *)
(***************************************************************************)
\* device blocks in one enumeration text of the lister
MaxBlocks == 2
\* lines of a format listing given to _get_camera_specs alone
MaxFmtLines == 6
\* lines of an enumeration text given to _parse_detailed_info alone
MaxLines == 3

(***************************************************************************)
(* Python values.                                                          *)
(***************************************************************************)
None == "None"

Ok(v) == [exc |-> "", val |-> v]

Raise(e) == [exc |-> e, val |-> <<>>]

(***************************************************************************)
(* str methods.                                                            *)
(***************************************************************************)
lower_map ==
    ("A" :> "a") @@ ("B" :> "b") @@ ("C" :> "c") @@ ("D" :> "d") @@ ("E" :> "e") @@ ("F" :> "f") @@
    ("G" :> "g") @@ ("H" :> "h") @@ ("I" :> "i") @@ ("J" :> "j") @@ ("K" :> "k") @@ ("L" :> "l") @@
    ("M" :> "m") @@ ("N" :> "n") @@ ("O" :> "o") @@ ("P" :> "p") @@ ("Q" :> "q") @@ ("R" :> "r") @@
    ("S" :> "s") @@ ("T" :> "t") @@ ("U" :> "u") @@ ("V" :> "v") @@ ("W" :> "w") @@ ("X" :> "x") @@
    ("Y" :> "y") @@ ("Z" :> "z")

digit_map ==
    ("0" :> 0) @@ ("1" :> 1) @@ ("2" :> 2) @@ ("3" :> 3) @@ ("4" :> 4) @@
    ("5" :> 5) @@ ("6" :> 6) @@ ("7" :> 7) @@ ("8" :> 8) @@ ("9" :> 9)

\* the whitespace of strip and of \s
SpaceChars == {" ", "\t", "\n", "\r", "\f"}

\* the characters of \d
DigitChars == DOMAIN digit_map

\* the characters of \w
WordChars ==
    DOMAIN lower_map \cup {lower_map[u] : u \in DOMAIN lower_map} \cup DigitChars \cup {"_"}

\* str.isspace of one character
IsSpace(c) == c \in SpaceChars

\* str.isdigit of one character
IsDigit(c) == c \in DigitChars

\* str.lower
lower(s) == [i \in 1..Len(s) |-> IF s[i] \in DOMAIN lower_map THEN lower_map[s[i]] ELSE s[i]]

\* s[i:] starts with p, i counted from 1
StartsAt(s, i, p) ==
    /\ i + Len(p) - 1 <= Len(s)
    /\ \A k \in 1..Len(p) : s[i + k - 1] = p[k]

\* str.startswith
startswith(s, p) == StartsAt(s, 1, p)

\* the operator "in" of two str: p in s
contains(s, p) == \E i \in 1..(Len(s) + 1) : StartsAt(s, i, p)

\* str.rstrip
rstrip(s) ==
    LET kept == {i \in 1..Len(s) : ~IsSpace(s[i])}
    IN  IF kept = {}
        THEN <<>>
        ELSE SubSeq(s, 1, CHOOSE i \in kept : \A j \in kept : j <= i)

\* str.lstrip
lstrip(s) ==
    LET kept == {i \in 1..Len(s) : ~IsSpace(s[i])}
    IN  IF kept = {}
        THEN <<>>
        ELSE SubSeq(s, CHOOSE i \in kept : \A j \in kept : i <= j, Len(s))

\* str.strip
strip(s) == lstrip(rstrip(s))

\* str.replace(c, "") for a one-character c
remove_char(s, c) == SelectSeq(s, LAMBDA x : x # c)

\* the places of text where a line break begins: "\n", "\r", "\f", and
\* "\r\n" as one break
line_breaks(text) ==
    {i \in 1..Len(text) :
        \/ text[i] \in {"\r", "\f"}
        \/ text[i] = "\n" /\ ~(i > 1 /\ text[i - 1] = "\r")}

\* the width of the line break that begins at text[i]
break_width(text, i) ==
    IF text[i] = "\r" /\ i < Len(text) /\ text[i + 1] = "\n" THEN 2 ELSE 1

\* str.splitlines: the lines without their line breaks; a final line break
\* opens no empty last line
splitlines(text) ==
    LET breaks == line_breaks(text)
        nth(k) == CHOOSE p \in breaks : Cardinality({q \in breaks : q < p}) = k - 1
        start(k) == IF k = 1 THEN 1 ELSE nth(k - 1) + break_width(text, nth(k - 1))
        n == Cardinality(breaks)
        ended == [k \in 1..n |-> SubSeq(text, start(k), nth(k) - 1)]
    IN  IF start(n + 1) <= Len(text)
        THEN Append(ended, SubSeq(text, start(n + 1), Len(text)))
        ELSE ended

RECURSIVE int_of(_, _)
\* int() of a string of decimal digits, acc being the value so far
int_of(s, acc) ==
    IF s = <<>> THEN acc ELSE int_of(Tail(s), 10 * acc + digit_map[s[1]])

\* float() of "<whole>.<frac>", in thousandths
float_of(whole, frac) ==
    LET f3 == SubSeq(frac \o <<"0", "0", "0">>, 1, 3)
    IN  1000 * int_of(whole, 0) + int_of(f3, 0)

(***************************************************************************)
(* String literals of the source.                                          *)
(***************************************************************************)
\* ":/dev/" (detector.py:92)
s_colon_dev ==
    <<":", "/", "d", "e", "v", "/">>

\* "/dev/video" (detector.py:103)
s_dev_video ==
    <<"/", "d", "e", "v", "/", "v", "i", "d", "e", "o">>

\* "Size:" and "Discrete" (detector.py:167)
s_Size ==
    <<"S", "i", "z", "e", ":">>

s_Discrete ==
    <<"D", "i", "s", "c", "r", "e", "t", "e">>

\* "fps)" (detector.py:174)
s_fps ==
    <<"f", "p", "s", ")">>

\* "MJPG" and "YUYV" (detector.py:21)
s_MJPG ==
    <<"M", "J", "P", "G">>

s_YUYV ==
    <<"Y", "U", "Y", "V">>

(***************************************************************************)
(* _parse_detailed_info (detector.py:80-108).                              *)
(***************************************************************************)
\* the dictionary opened for a header line (detector.py:95-101)
new_device(line) ==
    [name |-> strip(remove_char(line, ":")), type |-> "", paths |-> <<>>,
     _id |-> <<>>, cam_param |-> <<>>]

\* "if current_device: devices.append(current_device)"; the {} that no header
\* has replaced yet is falsy
append_current(devices, current_device) ==
    IF current_device # <<>> THEN Append(devices, current_device[1]) ELSE devices

\* the test of detector.py:92
is_header(line) == ~(line[1] \in {" ", "\t"}) /\ ~contains(line, s_colon_dev)

\* the test of detector.py:103
is_path(line) == startswith(strip(line), s_dev_video)

\* detector.py:104: current_device["paths"].append(line.strip()); the initial
\* {} has no key "paths"
append_path(current_device, line) ==
    IF current_device = <<>>
    THEN Raise("KeyError")
    ELSE Ok(<<[current_device[1] EXCEPT !.paths = Append(@, strip(line))]>>)

RECURSIVE parse_lines(_, _, _, _)
\* the loop of detector.py:86-108 from line i on
parse_lines(lines, i, devices, current_device) ==
    IF i > Len(lines)
    THEN Ok(append_current(devices, current_device))
    ELSE LET line == rstrip(lines[i])
         IN  IF line = <<>>
             THEN parse_lines(lines, i + 1, devices, current_device)
             ELSE IF is_header(line)
             THEN parse_lines(lines, i + 1, append_current(devices, current_device),
                              <<new_device(line)>>)
             ELSE IF is_path(line)
             THEN LET appended == append_path(current_device, line)
                  IN  IF appended.exc # ""
                      THEN appended
                      ELSE parse_lines(lines, i + 1, devices, appended.val)
             ELSE parse_lines(lines, i + 1, devices, current_device)

_parse_detailed_info(output) == parse_lines(splitlines(output), 1, <<>>, <<>>)

(***************************************************************************)
(* _find_type (detector.py:115-121).  A table is the dictionary json.load  *)
(* returns, in its iteration order: a sequence of [label, names].          *)
(***************************************************************************)
\* the comparison without cam_name.lower()
matches_cased(cam_name, names) ==
    \E k \in 1..Len(names) : contains(cam_name, lower(names[k]))

\* the inner loop, detector.py:118-120: some name of the entry occurs in cam_name
matches(cam_name, names) ==
    \E k \in 1..Len(names) : contains(lower(cam_name), lower(names[k]))

RECURSIVE find_from(_, _, _)
\* the outer loop from entry i on
find_from(cam_name, fcc_data, i) ==
    IF i > Len(fcc_data)
    THEN None   \* line 121 asserts a non-empty string, which never fails
    ELSE IF matches(cam_name, fcc_data[i].names)
    THEN fcc_data[i].label
    ELSE find_from(cam_name, fcc_data, i + 1)

_find_type(cam_name, fcc_data) == find_from(cam_name, fcc_data, 1)

\* _get_cam_type (detector.py:110-113)
_get_cam_type(info, fcc_data) ==
    [k \in 1..Len(info) |-> [info[k] EXCEPT !.type = _find_type(info[k].name, fcc_data)]]

(***************************************************************************)
(* _get_camera_specs (detector.py:139-188).                                *)
(***************************************************************************)
\* the end of the longest run of characters of chars that starts at s[i]
span_end(s, i, chars) ==
    CHOOSE j \in i..(Len(s) + 1) :
        /\ j = Len(s) + 1 \/ s[j] \notin chars
        /\ \A k \in i..(j - 1) : s[k] \in chars

char_at(s, i, c) == i <= Len(s) /\ s[i] = c

\* re.match(r"\s*\[\d+\]:\s+\'(\w+)\'.*", line): <<>> or <<group 1>>
fmt_match(line) ==
    LET a == span_end(line, 1, SpaceChars)
        b == span_end(line, a + 1, DigitChars)
        c == span_end(line, b + 2, SpaceChars)
        e == span_end(line, c + 1, WordChars)
    IN  IF /\ char_at(line, a, "[")
           /\ b > a + 1
           /\ char_at(line, b, "]")
           /\ char_at(line, b + 1, ":")
           /\ c > b + 2
           /\ char_at(line, c, "'")
           /\ e > c + 1
           /\ char_at(line, e, "'")
        THEN <<SubSeq(line, c + 1, e - 1)>>
        ELSE <<>>

\* re.match(r"\s*Size:\s+Discrete\s+(\d+)x(\d+)", line): <<>> or <<(w, h)>>
size_match(line) ==
    LET a == span_end(line, 1, SpaceChars)
        b == span_end(line, a + Len(s_Size), SpaceChars)
        c == span_end(line, b + Len(s_Discrete), SpaceChars)
        e == span_end(line, c, DigitChars)
        f == span_end(line, e + 1, DigitChars)
    IN  IF /\ StartsAt(line, a, s_Size)
           /\ b > a + Len(s_Size)
           /\ StartsAt(line, b, s_Discrete)
           /\ c > b + Len(s_Discrete)
           /\ e > c
           /\ char_at(line, e, "x")
           /\ f > e + 1
        THEN << <<int_of(SubSeq(line, c, e - 1), 0), int_of(SubSeq(line, e + 1, f - 1), 0)>> >>
        ELSE <<>>

\* r"\((\d+\.\d+)\s+fps\)" matched at line[p]
fps_at(line, p) ==
    LET q == span_end(line, p + 1, DigitChars)
        r == span_end(line, q + 1, DigitChars)
        t == span_end(line, r, SpaceChars)
    IN  /\ char_at(line, p, "(")
        /\ q > p + 1
        /\ char_at(line, q, ".")
        /\ r > q + 1
        /\ t > r
        /\ StartsAt(line, t, s_fps)

\* float(re.search(r"\((\d+\.\d+)\s+fps\)", line).group(1)): <<>> or <<fps>>
fps_search(line) ==
    LET hits == {p \in 1..Len(line) : fps_at(line, p)}
    IN  IF hits = {}
        THEN <<>>
        ELSE LET p == CHOOSE x \in hits : \A y \in hits : x <= y
                 q == span_end(line, p + 1, DigitChars)
                 r == span_end(line, q + 1, DigitChars)
             IN  <<float_of(SubSeq(line, p + 1, q - 1), SubSeq(line, q + 1, r - 1))>>

\* the filter that lets every format through once a format line was seen
no_format(current_format, cam_codec) == current_format = <<>>

\* detector.py:163: "if current_format not in {cam_codec}: continue"
wrong_format(current_format, cam_codec) == current_format # <<cam_codec>>

\* detector.py:173-184: the candidate of a frame-rate line, if it is one
with_fps(specs, line, current_format, current_res) ==
    IF current_res # <<>> /\ fps_search(line) # <<>>
    THEN Append(specs, [format |-> current_format[1], width |-> current_res[1][1],
                        height |-> current_res[1][2], fps |-> fps_search(line)[1]])
    ELSE specs

RECURSIVE scan_formats(_, _, _, _, _, _)
\* the loop of detector.py:154-185 from line i on
scan_formats(lines, i, cam_codec, current_format, current_res, specs) ==
    IF i > Len(lines)
    THEN specs
    ELSE IF fmt_match(lines[i]) # <<>>
    THEN scan_formats(lines, i + 1, cam_codec, fmt_match(lines[i]), <<>>, specs)
    ELSE IF wrong_format(current_format, cam_codec)
    THEN scan_formats(lines, i + 1, cam_codec, current_format, current_res, specs)
    ELSE IF size_match(lines[i]) # <<>>
    THEN scan_formats(lines, i + 1, cam_codec, current_format, size_match(lines[i]), specs)
    ELSE scan_formats(lines, i + 1, cam_codec, current_format, current_res,
                      with_fps(specs, lines[i], current_format, current_res))

\* run is how the subprocess ended: [raises, stdout], raises being "" or the
\* exception subprocess.run raised (check=True: CalledProcessError on a
\* non-zero exit, FileNotFoundError without the executable)
_get_camera_specs(run, cam_codec) ==
    IF run.raises \in {"CalledProcessError", "FileNotFoundError", "ValueError"}
    THEN <<>>
    ELSE scan_formats(splitlines(run.stdout), 1, cam_codec, <<>>, <<>>, <<>>)

\* the locals of the loop before its first turn (detector.py:150-152)
scan_start == [i |-> 1, current_format |-> <<>>, current_res |-> <<>>, specs |-> <<>>]

\* a turn whose format line keeps the resolution of the block before
scan_line_keep_res(line, cam_codec, st) ==
    IF fmt_match(line) # <<>>
    THEN [st EXCEPT !.i = @ + 1, !.current_format = fmt_match(line)]
    ELSE IF wrong_format(st.current_format, cam_codec)
    THEN [st EXCEPT !.i = @ + 1]
    ELSE IF size_match(line) # <<>>
    THEN [st EXCEPT !.i = @ + 1, !.current_res = size_match(line)]
    ELSE [st EXCEPT !.i = @ + 1,
                    !.specs = with_fps(@, line, st.current_format, st.current_res)]

\* one turn of the loop of detector.py:154-184 on the locals st
scan_line(line, cam_codec, st) ==
    IF fmt_match(line) # <<>>
    THEN [st EXCEPT !.i = @ + 1, !.current_format = fmt_match(line), !.current_res = <<>>]
    ELSE IF wrong_format(st.current_format, cam_codec)
    THEN [st EXCEPT !.i = @ + 1]
    ELSE IF size_match(line) # <<>>
    THEN [st EXCEPT !.i = @ + 1, !.current_res = size_match(line)]
    ELSE [st EXCEPT !.i = @ + 1,
                    !.specs = with_fps(@, line, st.current_format, st.current_res)]

(***************************************************************************)
(* _load_config (detector.py:29-52).  files is what the five candidate     *)
(* paths hold, in the order of search_paths: [kind, table], kind being     *)
(* "absent", "malformed" (not JSON) or "json".                             *)
(***************************************************************************)
\* the candidate paths of search_paths
NumSearchPaths == 5

\* detector.py:41-44: the candidates that exist
existing(files) == {i \in 1..Len(files) : files[i].kind # "absent"}

\* a loader that goes on to the next path when a file is malformed
load_first_table(files) ==
    LET tables == {i \in 1..Len(files) : files[i].kind = "json"}
    IN  IF tables = {}
        THEN Raise("RuntimeError")
        ELSE Ok(files[CHOOSE i \in tables : \A j \in tables : i <= j].table)

\* global_path is unbound when no candidate exists (UnboundLocalError), and
\* json.load raises JSONDecodeError on malformed content: both become
\* RuntimeError (detector.py:49-52)
_load_config(files) ==
    IF existing(files) = {}
    THEN Raise("RuntimeError")
    ELSE LET global_path == CHOOSE i \in existing(files) : \A j \in existing(files) : i <= j
         IN  IF files[global_path].kind = "malformed"
             THEN Raise("RuntimeError")
             ELSE Ok(files[global_path].table)

(***************************************************************************)
(* _get_detailed_info (detector.py:66-78).  run is how the lister ended:   *)
(* [raises, returncode, stdout].  subprocess.run is called without check,  *)
(* so a non-zero exit raises nothing and its stdout is parsed.             *)
(***************************************************************************)
_get_detailed_info(run) ==
    IF run.raises \in {"CalledProcessError", "FileNotFoundError"}
    THEN Ok(<<>>)
    ELSE LET parsed == _parse_detailed_info(run.stdout)
         IN  IF parsed.exc # "" THEN parsed ELSE Ok(<<parsed.val>>)

\* "self._detailed_info is None" in place of "not self._detailed_info"
is_none(info) == info = <<>>

\* "not self._detailed_info" (detector.py:57): None and [] are falsy
not_detailed_info(info) == info = <<>> \/ info = << <<>> >>

(***************************************************************************)
(* _get_best_cam_param (detector.py:123-137), one device of the loop.      *)
(***************************************************************************)
\* self.__codec_preferences (detector.py:21)
codec_preferences == [cam |-> s_MJPG, termal |-> s_YUYV]

\* detector.py:126-127
skips_device(device) == device.type = "realsense" \/ device.type = ""

\* detector.py:129-131: what the lookups before the probe raise, "" if nothing:
\* the codec of the type, the first path, the int of its last character
before_probe(device) ==
    IF device.type \notin DOMAIN codec_preferences
    THEN "KeyError"
    ELSE IF device.paths = <<>>
    THEN "IndexError"
    ELSE IF ~IsDigit(device.paths[1][Len(device.paths[1])])
    THEN "ValueError"
    ELSE ""

\* all_specs[-1] in place of all_specs[0]
last_specs(all_specs) ==
    IF all_specs = <<>> THEN Raise("IndexError") ELSE Ok(all_specs[Len(all_specs)])

\* detector.py:134: best_specs = all_specs[0]
best_specs(all_specs) ==
    IF all_specs = <<>> THEN Raise("IndexError") ELSE Ok(all_specs[1])

\* detector.py:131-137 for a device that passed before_probe
after_probe(device, all_specs) ==
    LET main_path == device.paths[1]
        cam_id == digit_map[main_path[Len(main_path)]]
        best == best_specs(all_specs)
    IN  IF best.exc # ""
        THEN best
        ELSE Ok([device EXCEPT !._id = <<cam_id>>, !.cam_param = <<best.val>>])

(***************************************************************************)
(* _group_cameras_by_type (detector.py:211-223).                           *)
(***************************************************************************)
\* detector.py:213
empty_stacks == [termal |-> <<>>, cam |-> <<>>, realsense |-> <<>>]

RECURSIVE group_shared(_, _, _)
\* the loop on stacks whose three keys share one list (dict.fromkeys(keys, []))
group_shared(info, i, st) ==
    IF i > Len(info)
    THEN Ok(st)
    ELSE IF info[i].type \notin DOMAIN st
    THEN Raise("KeyError")
    ELSE group_shared(info, i + 1, [t \in DOMAIN st |-> Append(st[t], info[i])])

RECURSIVE group_from(_, _, _)
\* the loop of detector.py:215-217 from camera i on
group_from(info, i, st) ==
    IF i > Len(info)
    THEN Ok(st)
    ELSE IF info[i].type \notin DOMAIN st
    THEN Raise("KeyError")
    ELSE group_from(info, i + 1, [st EXCEPT ![info[i].type] = Append(@, info[i])])

_group_cameras_by_type(info) == group_from(info, 1, empty_stacks)

(***************************************************************************)
(* get_camera (detector.py:225-238): [exc, ret, stacks], the exception the *)
(* caller sees ("" if none), the value returned (<<>> for None) and the    *)
(* stacks after the call.                                                  *)
(***************************************************************************)
\* pop(0) in place of pop(): the first element is taken
pop_first(list) == [item |-> list[1], rest |-> Tail(list)]

\* list.pop(): the last element and the list without it
pop(list) == [item |-> list[Len(list)], rest |-> SubSeq(list, 1, Len(list) - 1)]

\* a get_camera that empties the stack it takes from
get_camera_clear(no_cam_found, st, cam_type) ==
    IF no_cam_found
    THEN [exc |-> "", ret |-> <<>>, stacks |-> st]
    ELSE IF st = <<>>
    THEN [exc |-> "AttributeError", ret |-> <<>>, stacks |-> st]
    ELSE IF cam_type \notin DOMAIN st[1]
    THEN [exc |-> "KeyError", ret |-> <<>>, stacks |-> st]
    ELSE IF st[1][cam_type] = <<>>
    THEN [exc |-> "", ret |-> <<>>, stacks |-> st]
    ELSE [exc |-> "", ret |-> <<pop(st[1][cam_type]).item>>,
          stacks |-> <<[st[1] EXCEPT ![cam_type] = <<>>]>>]

get_camera_result(no_cam_found, st, cam_type) ==
    IF no_cam_found
    THEN [exc |-> "", ret |-> <<>>, stacks |-> st]
    ELSE IF st = <<>>
    THEN [exc |-> "AttributeError", ret |-> <<>>, stacks |-> st]
    ELSE IF cam_type \notin DOMAIN st[1]
    THEN [exc |-> "KeyError", ret |-> <<>>, stacks |-> st]
    ELSE IF st[1][cam_type] = <<>>
    THEN [exc |-> "", ret |-> <<>>, stacks |-> st]   \* IndexError, caught
    ELSE [exc |-> "", ret |-> <<pop(st[1][cam_type]).item>>,
          stacks |-> <<[st[1] EXCEPT ![cam_type] = pop(@).rest]>>]

(***************************************************************************)
(* The environment: what the files and the two utilities may hold.         *)
(***************************************************************************)
\* name fragments of the type tables
f_thermal ==
    <<"t", "h", "e", "r", "m", "a", "l">>

f_webcam ==
    <<"w", "e", "b", "c", "a", "m">>

f_cam ==
    <<"c", "a", "m">>

f_realsense ==
    <<"r", "e", "a", "l", "s", "e", "n", "s", "e">>

f_CAM ==
    <<"C", "A", "M">>

\* lines of the lister's text
l_ThermalCam ==
    <<"T", "h", "e", "r", "m", "a", "l", "C", "a", "m", " ", "O", "n", "e", ":">>

l_Webcam ==
    <<"W", "e", "b", "c", "a", "m", " ", "T", "w", "o", ":">>

l_USBCamera ==
    <<"U", "S", "B", " ", "C", "a", "m", "e", "r", "a", ":">>

l_RealSense ==
    <<"R", "e", "a", "l", "S", "e", "n", "s", "e", " ", "D", "4", "3", "5", ":">>

l_Foo ==
    <<"F", "o", "o", ":">>

l_video0 ==
    <<"\t", "/", "d", "e", "v", "/", "v", "i", "d", "e", "o", "0">>

l_video1 ==
    <<"\t", "/", "d", "e", "v", "/", "v", "i", "d", "e", "o", "1">>

l_video2 ==
    <<"\t", "/", "d", "e", "v", "/", "v", "i", "d", "e", "o", "2">>

l_videoX ==
    <<"\t", "/", "d", "e", "v", "/", "v", "i", "d", "e", "o", "X">>

l_media0 ==
    <<"\t", "/", "d", "e", "v", "/", "m", "e", "d", "i", "a", "0">>

l_spaces ==
    <<" ", " ", " ", " ", "/", "d", "e", "v", "/", "v", "i", "d", "e", "o", "1", " ", " ">>

l_usb ==
    <<"u", "s", "b", "-", "1", ":", "/", "d", "e", "v", "/", "v", "i", "d", "e", "o", "3">>

l_USB_Cam ==
    <<"U", "S", "B", ":", " ", "C", "a", "m", ":">>

l_NoColon ==
    <<"F", "o", "o">>

\* lines of a format listing
l_fmt_MJPG ==
    <<"\t", "[", "0", "]", ":", " ", "'", "M", "J", "P", "G", "'", " ", "(", "M", "o", "t", "i", "o", "n", "-", "J", "P", "E", "G", ",", " ", "c", "o", "m", "p", "r", "e", "s", "s", "e", "d", ")">>

l_fmt_YUYV ==
    <<"\t", "[", "1", "]", ":", " ", "'", "Y", "U", "Y", "V", "'", " ", "(", "Y", "U", "Y", "V", " ", "4", ":", "2", ":", "2", ")">>

l_size_1280 ==
    <<"\t", "\t", "S", "i", "z", "e", ":", " ", "D", "i", "s", "c", "r", "e", "t", "e", " ", "1", "2", "8", "0", "x", "7", "2", "0">>

l_size_640 ==
    <<"\t", "\t", "S", "i", "z", "e", ":", " ", "D", "i", "s", "c", "r", "e", "t", "e", " ", "6", "4", "0", "x", "4", "8", "0">>

l_size_step ==
    <<"\t", "\t", "S", "i", "z", "e", ":", " ", "S", "t", "e", "p", "w", "i", "s", "e", " ", "3", "2", "x", "3", "2", " ", "-", " ", "6", "4", "0", "x", "4", "8", "0">>

l_fps_30 ==
    <<"\t", "\t", "\t", "I", "n", "t", "e", "r", "v", "a", "l", ":", " ", "D", "i", "s", "c", "r", "e", "t", "e", " ", "0", ".", "0", "3", "3", "s", " ", "(", "3", "0", ".", "0", "0", "0", " ", "f", "p", "s", ")">>

l_fps_60 ==
    <<"\t", "\t", "\t", "I", "n", "t", "e", "r", "v", "a", "l", ":", " ", "D", "i", "s", "c", "r", "e", "t", "e", " ", "0", ".", "0", "1", "7", "s", " ", "(", "6", "0", ".", "0", "0", "0", " ", "f", "p", "s", ")">>

l_fps_7 ==
    <<"\t", "\t", "\t", "I", "n", "t", "e", "r", "v", "a", "l", ":", " ", "D", "i", "s", "c", "r", "e", "t", "e", " ", "0", ".", "1", "3", "3", "s", " ", "(", "7", ".", "5", " ", "f", "p", "s", ")">>

\* the enumeration text of the worked example
ExampleText ==
    <<"T", "h", "e", "r", "m", "a", "l", "C", "a", "m", " ", "O", "n", "e", ":", "\n", "\t", "/", "d", "e", "v", "/", "v", "i", "d", "e", "o", "0", "\n", "\t", "/", "d", "e", "v", "/", "v", "i", "d", "e", "o", "1", "\n", "W", "e", "b", "c", "a", "m", " ", "T", "w", "o", ":", "\n", "\t", "/", "d", "e", "v", "/", "v", "i", "d", "e", "o", "2", "\n">>

\* the type table of the worked example: {"thermal": ["thermal"], "cam": ["webcam"]}
ExampleTable ==
    <<[label |-> "thermal", names |-> <<f_thermal>>],
      [label |-> "cam", names |-> <<f_webcam>>]>>

\* a type table with the labels the code pools (detector.py:213)
CompanyTable ==
    <<[label |-> "termal", names |-> <<f_thermal>>],
      [label |-> "cam", names |-> <<f_webcam, f_cam>>],
      [label |-> "realsense", names |-> <<f_realsense>>]>>

Tables == {ExampleTable, CompanyTable}

\* what one candidate path may hold
FileStates ==
    {[kind |-> "absent", table |-> <<>>], [kind |-> "malformed", table |-> <<>>]}
    \cup {[kind |-> "json", table |-> t] : t \in Tables}

absent == [kind |-> "absent", table |-> <<>>]

malformed == [kind |-> "malformed", table |-> <<>>]

json(t) == [kind |-> "json", table |-> t]

\* installations without a readable table: no candidate path exists, or a
\* malformed file comes before every table
BrokenInstalls ==
    {f \in [1..NumSearchPaths -> FileStates] :
        \A i \in 1..NumSearchPaths :
            f[i].kind = "json" => \E j \in 1..(i - 1) : f[j].kind = "malformed"}

\* installations with a table at the first path that exists, and a malformed
\* file and another table at later paths
WorkingInstalls ==
    {f \in {<<absent, json(t), malformed, json(u), absent>> : t, u \in Tables} :
        f[2] # f[4]}

\* what the five candidate paths may hold
ConfigFiles == BrokenInstalls \cup WorkingInstalls

RECURSIVE SeqsUpTo(_, _)
\* the sequences of at most n elements of S
SeqsUpTo(S, n) ==
    IF n = 0
    THEN {<<>>}
    ELSE LET shorter == SeqsUpTo(S, n - 1)
         IN  shorter \cup {Append(s, x) : s \in shorter, x \in S}

RECURSIVE join_lines(_)
\* the text whose lines are the given ones, each ended by a newline
join_lines(lines) ==
    IF lines = <<>> THEN <<>> ELSE lines[1] \o <<"\n">> \o join_lines(Tail(lines))

RECURSIVE concat(_)
concat(seqs) == IF seqs = <<>> THEN <<>> ELSE seqs[1] \o concat(Tail(seqs))

\* device blocks as the lister prints them: a header and its paths
Blocks ==
    {<<l_ThermalCam, l_video0, l_video1>>,
     <<l_Webcam, l_video2>>,
     <<l_USBCamera, l_video0>>,
     <<l_RealSense, l_video1>>,
     <<l_Foo, l_video0>>,
     <<l_Webcam>>,
     <<l_USBCamera, l_videoX>>}

\* the texts of the lister: up to MaxBlocks blocks, and one text that begins
\* with a path line
Texts ==
    {join_lines(concat(bs)) : bs \in SeqsUpTo(Blocks, MaxBlocks)}
    \cup {join_lines(<<l_video0, l_Webcam, l_video2>>)}

\* the runs of "v4l2-ctl --list-devices": no executable, or any exit status
\* with any text
ListerRuns ==
    {[raises |-> "FileNotFoundError", returncode |-> 0, stdout |-> <<>>]}
    \cup {[raises |-> "", returncode |-> rc, stdout |-> t] : rc \in {0, 1}, t \in Texts}

\* format listings of one device
Listings ==
    {<<>>,
     join_lines(<<l_fmt_MJPG, l_size_640, l_fps_30, l_size_1280, l_fps_60>>),
     join_lines(<<l_fmt_YUYV, l_size_640, l_fps_30>>),
     join_lines(<<l_fmt_YUYV, l_size_640, l_fps_7, l_fps_30, l_fmt_MJPG, l_size_1280, l_fps_60>>)}

\* the runs of "v4l2-ctl -d <path> --list-formats-ext" (check=True)
ProbeRuns ==
    {[raises |-> e, stdout |-> <<>>] : e \in {"CalledProcessError", "FileNotFoundError"}}
    \cup {[raises |-> "", stdout |-> t] : t \in Listings}

\* the arguments of get_camera: the labels of the stacks and one other label
ClaimArgs == {"termal", "cam", "realsense", "thermal"}

(***************************************************************************)
(* Construction: __init__ (detector.py:9-27) and _discover_cameras         *)
(* (detector.py:54-64), one action per step.                               *)
(***************************************************************************)
Init ==
    /\ pc = "init"
    /\ exc = ""
    /\ NO_CAM_FOUND = FALSE
    /\ search_paths = <<>>
    /\ config = <<>>
    /\ listing = <<>>
    /\ detailed_info = <<>>
    /\ dev_i = 0
    /\ stacks = <<>>
    /\ lister_calls = 0
    /\ probe_calls = <<>>
    /\ returned = <<>>
    /\ last_call = <<>>
    /\ h_pc = "off"
    /\ h_in = <<>>
    /\ h_out = <<>>

\* an exception leaves __init__: no researcher exists
raise(e) == pc' = "raised" /\ exc' = e

\* detector.py:20
LoadConfig ==
    /\ pc = "init"
    /\ \E files \in ConfigFiles :
        LET r == _load_config(files)
        IN  /\ search_paths' = <<files>>
            /\ IF r.exc # ""
               THEN raise(r.exc) /\ UNCHANGED config
               ELSE pc' = "discover" /\ config' = <<r.val>> /\ UNCHANGED exc
    /\ UNCHANGED <<NO_CAM_FOUND, listing, detailed_info, dev_i, stacks, lister_calls,
                   probe_calls, returned, last_call, h_pc, h_in, h_out>>

\* detector.py:56-60
ListDevices ==
    /\ pc = "discover"
    /\ \E run \in ListerRuns :
        LET r == _get_detailed_info(run)
        IN  /\ listing' = <<run>>
            /\ lister_calls' = lister_calls + 1
            /\ IF r.exc # ""
               THEN raise(r.exc) /\ UNCHANGED <<detailed_info, NO_CAM_FOUND>>
               ELSE /\ detailed_info' = r.val
                    /\ NO_CAM_FOUND' = not_detailed_info(r.val)
                    /\ pc' = IF not_detailed_info(r.val) THEN "ready" ELSE "cam_type"
                    /\ UNCHANGED exc
    /\ UNCHANGED <<search_paths, config, dev_i, stacks, probe_calls, returned, last_call,
                   h_pc, h_in, h_out>>

\* detector.py:62
GetCamType ==
    /\ pc = "cam_type"
    /\ detailed_info' = <<_get_cam_type(detailed_info[1], config[1])>>
    /\ pc' = "best_param"
    /\ dev_i' = 1
    /\ UNCHANGED <<exc, NO_CAM_FOUND, search_paths, config, listing, stacks, lister_calls,
                   probe_calls, returned, last_call, h_pc, h_in, h_out>>

\* detector.py:63, one turn of the loop of _get_best_cam_param
BestCamParam ==
    /\ pc = "best_param"
    /\ dev_i <= Len(detailed_info[1])
    /\ LET device == detailed_info[1][dev_i]
       IN  IF skips_device(device)
           THEN dev_i' = dev_i + 1 /\ UNCHANGED <<pc, exc, detailed_info, probe_calls>>
           ELSE IF before_probe(device) # ""
           THEN raise(before_probe(device)) /\ UNCHANGED <<dev_i, detailed_info, probe_calls>>
           ELSE \E run \in ProbeRuns :
               LET cam_codec == codec_preferences[device.type]
                   all_specs == _get_camera_specs(run, cam_codec)
                   r == after_probe(device, all_specs)
               IN  /\ probe_calls' = Append(probe_calls,
                                            [dev |-> dev_i, path |-> device.paths[1],
                                             codec |-> cam_codec, specs |-> all_specs])
                   /\ IF r.exc # ""
                      THEN raise(r.exc) /\ UNCHANGED <<dev_i, detailed_info>>
                      ELSE /\ detailed_info' = <<[detailed_info[1] EXCEPT ![dev_i] = r.val]>>
                           /\ dev_i' = dev_i + 1
                           /\ UNCHANGED <<pc, exc>>
    /\ UNCHANGED <<NO_CAM_FOUND, search_paths, config, listing, stacks, lister_calls, returned,
                   last_call, h_pc, h_in, h_out>>

\* _group_cameras_by_type called while _get_best_cam_param still has devices
\* to probe
GroupCamerasEarly ==
    /\ pc = "best_param"
    /\ LET r == _group_cameras_by_type(detailed_info[1])
       IN  IF r.exc # ""
           THEN raise(r.exc) /\ UNCHANGED stacks
           ELSE pc' = "ready" /\ stacks' = <<r.val>> /\ UNCHANGED exc
    /\ UNCHANGED <<NO_CAM_FOUND, search_paths, config, listing, detailed_info, dev_i,
                   lister_calls, probe_calls, returned, last_call, h_pc, h_in, h_out>>

\* detector.py:64, after the loop of _get_best_cam_param; __init__ then
\* returns (_draw_detailed_info only prints)
GroupCameras ==
    /\ pc = "best_param"
    /\ dev_i > Len(detailed_info[1])
    /\ LET r == _group_cameras_by_type(detailed_info[1])
       IN  IF r.exc # ""
           THEN raise(r.exc) /\ UNCHANGED stacks
           ELSE pc' = "ready" /\ stacks' = <<r.val>> /\ UNCHANGED exc
    /\ UNCHANGED <<NO_CAM_FOUND, search_paths, config, listing, detailed_info, dev_i, lister_calls,
                   probe_calls, returned, last_call, h_pc, h_in, h_out>>

(***************************************************************************)
(* get_camera (detector.py:225-238) on the researcher __init__ returned.   *)
(***************************************************************************)
get_camera(cam_type) ==
    LET r == get_camera_result(NO_CAM_FOUND, stacks, cam_type)
    IN  /\ stacks' = r.stacks
        /\ last_call' = <<[arg |-> cam_type, exc |-> r.exc, ret |-> r.ret]>>
        /\ returned' = IF r.ret # <<>>
                       THEN Append(returned, [arg |-> cam_type, cam |-> r.ret[1]])
                       ELSE returned
        /\ UNCHANGED <<pc, exc, NO_CAM_FOUND, search_paths, config, listing, detailed_info, dev_i,
                       lister_calls, probe_calls, h_pc, h_in, h_out>>

GetCamera ==
    /\ pc = "ready"
    /\ \E cam_type \in ClaimArgs : get_camera(cam_type)

Next ==
    \/ LoadConfig
    \/ ListDevices
    \/ GetCamType
    \/ BestCamParam
    \/ GroupCameras
    \/ GetCamera

Spec == Init /\ [][Next]_vars

(***************************************************************************)
(* The three parsers on their own: one application of                      *)
(* _parse_detailed_info, _find_type or _get_camera_specs to an input drawn *)
(* from a set wider than what the construction above is run on, and the    *)
(* loop of _get_camera_specs turn by turn.                                 *)
(***************************************************************************)
\* lines of an enumeration text: headers (one with an inner colon, one without
\* colon), path lines (tab and space indented), an indented line that is no
\* video path, a line that carries the path marker unindented, a blank line
EnumLines ==
    {l_USB_Cam, l_NoColon, l_video0, l_spaces, l_media0, l_usb, <<>>}

EnumTexts == {join_lines(ls) : ls \in SeqsUpTo(EnumLines, MaxLines)}

\* device names
CamNames ==
    {strip(remove_char(l, ":")) : l \in {l_ThermalCam, l_Webcam, l_USBCamera, l_RealSense, l_Foo}}

\* entries of a type table; the tables have at most MaxEntries of them, of
\* different labels
MaxEntries == 2

TableEntries ==
    {[label |-> lb, names |-> ns] :
        lb \in {"termal", "cam", "realsense"},
        ns \in {<<f_thermal>>, <<f_webcam, f_cam>>, <<f_cam, f_webcam>>, <<f_CAM>>,
                <<f_realsense, f_thermal>>, <<>>}}

AnyTables ==
    {t \in SeqsUpTo(TableEntries, MaxEntries) :
        \A i, j \in 1..Len(t) : i # j => t[i].label # t[j].label}

\* lines of a format listing: the two format tags, a discrete size and a
\* frame rate
FmtLines == {l_fmt_MJPG, l_fmt_YUYV, l_size_640, l_fps_30}

\* listings with a stepwise size, a second discrete size, a frame rate of one
\* fractional digit, and a frame rate above any size
FmtExtras ==
    {join_lines(<<l_fmt_MJPG, l_size_step, l_fps_30>>),
     join_lines(<<l_fmt_MJPG, l_size_640, l_fps_30, l_size_step, l_fps_7>>),
     join_lines(<<l_fmt_YUYV, l_size_640, l_fps_7, l_size_1280, l_fps_60, l_fps_30>>),
     join_lines(<<l_fps_30, l_size_1280, l_fps_60, l_fmt_YUYV, l_size_1280, l_fps_60>>)}

FmtTexts ==
    {join_lines(ls) : ls \in SeqsUpTo(FmtLines, MaxFmtLines)} \cup Listings \cup FmtExtras

\* lines of a format listing scanned turn by turn
MaxScanLines == 4

\* a listing that leaves the preferred tag MJPG and comes back to it, with a
\* frame rate before the first size of the second MJPG block
SwitchBack ==
    join_lines(<<l_fmt_MJPG, l_size_1280, l_fps_30, l_fmt_YUYV, l_size_640, l_fps_7,
                 l_fmt_MJPG, l_fps_60, l_size_640, l_fps_60>>)

ScanTexts ==
    {join_lines(ls) : ls \in SeqsUpTo(FmtLines, MaxScanLines)}
    \cup Listings \cup FmtExtras \cup {SwitchBack}

InitFn ==
    /\ pc = "init"
    /\ exc = ""
    /\ NO_CAM_FOUND = FALSE
    /\ search_paths = <<>>
    /\ config = <<>>
    /\ listing = <<>>
    /\ detailed_info = <<>>
    /\ dev_i = 0
    /\ stacks = <<>>
    /\ lister_calls = 0
    /\ probe_calls = <<>>
    /\ returned = <<>>
    /\ last_call = <<>>
    /\ \/ h_pc = "parse" /\ h_in \in {[output |-> t] : t \in EnumTexts}
       \/ h_pc = "find" /\ h_in \in {[cam_name |-> n, fcc_data |-> t] : n \in CamNames, t \in AnyTables}
       \/ h_pc = "specs" /\ h_in \in {[output |-> t, cam_codec |-> c] : t \in FmtTexts, c \in {s_MJPG, s_YUYV}}
       \/ h_pc = "scan" /\ h_in \in {[output |-> t, cam_codec |-> c] : t \in ScanTexts, c \in {s_MJPG, s_YUYV}}
    /\ h_out = IF h_pc = "scan" THEN scan_start ELSE <<>>

pipeline_vars ==
    <<pc, exc, NO_CAM_FOUND, search_paths, config, listing, detailed_info, dev_i, stacks,
      lister_calls, probe_calls, returned, last_call>>

ApplyParse ==
    /\ h_pc = "parse"
    /\ h_out' = _parse_detailed_info(h_in.output)
    /\ h_pc' = "parsed"
    /\ UNCHANGED <<h_in, pipeline_vars>>

ApplyFindType ==
    /\ h_pc = "find"
    /\ h_out' = _find_type(h_in.cam_name, h_in.fcc_data)
    /\ h_pc' = "found"
    /\ UNCHANGED <<h_in, pipeline_vars>>

ApplySpecs ==
    /\ h_pc = "specs"
    /\ h_out' = _get_camera_specs([raises |-> "", stdout |-> h_in.output], h_in.cam_codec)
    /\ h_pc' = "scanned"
    /\ UNCHANGED <<h_in, pipeline_vars>>

\* one turn of the loop of _get_camera_specs (detector.py:154-184)
ScanLine ==
    /\ h_pc = "scan"
    /\ h_out.i <= Len(splitlines(h_in.output))
    /\ h_out' = scan_line(splitlines(h_in.output)[h_out.i], h_in.cam_codec, h_out)
    /\ UNCHANGED <<h_pc, h_in, pipeline_vars>>

\* the loop is over: "return specs" (detector.py:185)
ScanReturn ==
    /\ h_pc = "scan"
    /\ h_out.i > Len(splitlines(h_in.output))
    /\ h_pc' = "scan_returned"
    /\ UNCHANGED <<h_in, h_out, pipeline_vars>>

NextFn ==
    \/ ApplyParse
    \/ ApplyFindType
    \/ ApplySpecs
    \/ ScanLine
    \/ ScanReturn

SpecFn == InitFn /\ [][NextFn]_vars

(***************************************************************************)
(* Properties.                                                             *)
(***************************************************************************)
\* self._detailed_info as a list ([] while unassigned or None)
Info == IF detailed_info = <<>> THEN <<>> ELSE detailed_info[1]

\* the labels of the stacks
PoolLabels == DOMAIN empty_stacks

\* construction is over: __init__ returned or raised
Constructed == pc \in {"ready", "raised"}

\* the devices of type t, in discovery order
DevicesOfType(t) == SelectSeq(Info, LAMBDA d : d.type = t)

\* what the calls get_camera(t) have returned but None, in call order
ReturnedFor(t) == SelectSeq(returned, LAMBDA e : e.arg = t)

\* the elements of a finite set of integers, in increasing order
Sorted(S) ==
    [k \in 1..Cardinality(S) |-> CHOOSE p \in S : Cardinality({q \in S : q < p}) = k - 1]

\* the largest element of S, 0 if there is none
MaxOr0(S) == IF S = {} THEN 0 ELSE CHOOSE p \in S : \A q \in S : q <= p

\* C1: on a constructed researcher with k devices of a pool label t, the j-th
\* call get_camera(t) returns the (k - j + 1)-th discovered device of type t
\* for j <= k, and a call returns None only once all k have been returned
\* (so the (k+1)-th call and every later one return None).
C1_ClaimsInReverseDiscoveryOrder ==
    pc = "ready" =>
        \A t \in PoolLabels :
            LET pool == DevicesOfType(t)
                k == Len(pool)
                got == ReturnedFor(t)
            IN  /\ Len(got) <= k
                /\ \A j \in 1..Len(got) : got[j].cam = pool[k - j + 1]
                /\ (last_call # <<>> /\ last_call[1].arg = t) =>
                       /\ last_call[1].exc = ""
                       /\ last_call[1].ret = <<>> => Len(got) = k
                       /\ last_call[1].ret # <<>> => last_call[1].ret[1] = got[Len(got)].cam

\* two different devices of one type were claimed, and the third call was
\* answered None
C1_Witness ==
    /\ pc = "ready"
    /\ \E t \in PoolLabels :
        /\ Len(DevicesOfType(t)) = 2
        /\ DevicesOfType(t)[1] # DevicesOfType(t)[2]
        /\ Len(ReturnedFor(t)) = 2
        /\ last_call = <<[arg |-> t, exc |-> "", ret |-> <<>>]>>

\* C2: get_camera with a label the pool does not know, on a researcher that
\* found a device, returns None and raises nothing.
C2_UnknownTypeIsExhausted ==
    (pc = "ready" /\ ~NO_CAM_FOUND /\ last_call # <<>> /\ last_call[1].arg \notin PoolLabels) =>
        last_call[1].exc = "" /\ last_call[1].ret = <<>>

\* C3: when the listing yields no device record (the lister could not be run,
\* or its text holds no device block), construction ends in the no-devices
\* state: no probe was run, no stacks were built, and every get_camera call
\* returned None without raising.
C3_NoDevicesIsTerminal ==
    (lister_calls > 0 /\ exc = "" /\ (detailed_info = <<>> \/ detailed_info = << <<>> >>)) =>
        /\ pc = "ready"
        /\ NO_CAM_FOUND
        /\ probe_calls = <<>>
        /\ stacks = <<>>
        /\ returned = <<>>
        /\ last_call # <<>> => last_call[1].exc = "" /\ last_call[1].ret = <<>>

\* the lister ran and printed no device block, and get_camera was called
C3_Witness ==
    /\ listing # <<>>
    /\ listing[1].raises = ""
    /\ detailed_info = << <<>> >>
    /\ last_call # <<>>

\* no fragment of the table occurs in the name, whatever the case
Unmatched(name) ==
    \A e \in 1..Len(config[1]) : \A k \in 1..Len(config[1][e].names) :
        ~contains(lower(name), lower(config[1][e].names[k]))

\* device i of the listing is in a stack or was returned by get_camera
Pooled(i) ==
    \/ \E t \in PoolLabels : \E j \in 1..Len(stacks[1][t]) : stacks[1][t][j] = Info[i]
    \/ \E j \in 1..Len(returned) : returned[j].cam = Info[i]

\* C4: a device whose name matches no fragment has an empty or unset type,
\* is not the device at which construction raises, and is in no stack.
C4_UnmatchedDeviceIsLeftOut ==
    \A i \in 1..Len(Info) :
        (pc \in {"best_param", "ready", "raised"} /\ Unmatched(Info[i].name)) =>
            /\ Info[i].type \in {"", None}
            /\ ~(pc = "raised" /\ dev_i = i)
            /\ pc = "ready" => ~Pooled(i)

\* C5: a device whose probe returned no candidate is not the device at which
\* construction raises, and is pooled without a selected format.
C5_EmptyProbeIsTolerated ==
    \A j \in 1..Len(probe_calls) :
        probe_calls[j].specs = <<>> =>
            /\ ~(pc = "raised" /\ dev_i = probe_calls[j].dev)
            /\ pc = "ready" =>
                   /\ Info[probe_calls[j].dev].cam_param = <<>>
                   /\ Pooled(probe_calls[j].dev)

\* the labels of the loaded type table
TableLabels == {config[1][e].label : e \in 1..Len(config[1])}

\* C6: a device classified under a label of the table that has no codec
\* preference is not probed, is not the device at which construction raises,
\* and is pooled without a selected format.
C6_NoCodecPreferenceIsPooled ==
    \A i \in 1..Len(Info) :
        (/\ pc \in {"best_param", "ready", "raised"}
         /\ Info[i].type \in TableLabels
         /\ Info[i].type \notin DOMAIN codec_preferences) =>
            /\ \A j \in 1..Len(probe_calls) : probe_calls[j].dev # i
            /\ ~(pc = "raised" /\ dev_i = i)
            /\ pc = "ready" => Info[i].cam_param = <<>> /\ Pooled(i)

\* the lines of a text, without trailing whitespace
StrippedLines(text) ==
    LET raw == splitlines(text) IN [k \in 1..Len(raw) |-> rstrip(raw[k])]

\* the header lines: not blank, not indented, without ":/dev/"
HeaderLines(lines) ==
    {i \in 1..Len(lines) :
        /\ lines[i] # <<>>
        /\ lines[i][1] \notin {" ", "\t"}
        /\ \A o \in 1..Len(lines[i]) : ~StartsAt(lines[i], o, s_colon_dev)}

\* the "/dev/video" path lines between header h and the next header
PathLinesOf(lines, headers, h) ==
    {i \in (h + 1)..Len(lines) :
        /\ i \notin headers
        /\ \A g \in headers : ~(h < g /\ g < i)
        /\ StartsAt(strip(lines[i]), 1, s_dev_video)}

\* C7: _parse_detailed_info returns one record per header line, in header
\* order, each with the path lines between its header and the next one.
C7_OneRecordPerHeader ==
    h_pc = "parsed" =>
        LET lines == StrippedLines(h_in.output)
            headers == HeaderLines(lines)
            order == Sorted(headers)
        IN  /\ h_out.exc = ""
            /\ Len(h_out.val) = Cardinality(headers)
            /\ \A j \in 1..Cardinality(headers) :
                LET ps == Sorted(PathLinesOf(lines, headers, order[j]))
                IN  /\ h_out.val[j].name = strip(remove_char(lines[order[j]], ":"))
                    /\ h_out.val[j].paths = [k \in 1..Len(ps) |-> strip(lines[ps[k]])]

\* one character without its case
fold(c) == IF c \in DOMAIN lower_map THEN lower_map[c] ELSE c

\* fragment occurs in name when case is ignored
OccursIn(fragment, name) ==
    \E o \in 0..(Len(name) - Len(fragment)) :
        \A k \in 1..Len(fragment) : fold(name[o + k]) = fold(fragment[k])

\* the entries of the table given to _find_type that have a fragment
\* occurring in the name
MatchingEntries ==
    {e \in 1..Len(h_in.fcc_data) :
        \E k \in 1..Len(h_in.fcc_data[e].names) :
            OccursIn(h_in.fcc_data[e].names[k], h_in.cam_name)}

\* C8: _find_type returns the label of the first entry of the table, in its
\* order, that has a fragment occurring in the name when case is ignored.
C8_FirstMatchingLabel ==
    (h_pc = "found" /\ MatchingEntries # {}) =>
        h_out = h_in.fcc_data[CHOOSE e \in MatchingEntries : \A g \in MatchingEntries : e <= g].label

\* two entries match the name, one of them only when case is ignored
C8_Witness ==
    /\ h_pc = "found"
    /\ Cardinality(MatchingEntries) = 2
    /\ h_out = h_in.fcc_data[1].label
    /\ \E k \in 1..Len(h_in.fcc_data[1].names) :
        /\ OccursIn(h_in.fcc_data[1].names[k], h_in.cam_name)
        /\ ~contains(h_in.cam_name, h_in.fcc_data[1].names[k])

\* the format-tag lines of a listing
TagLines(lines) == {i \in 1..Len(lines) : fmt_match(lines[i]) # <<>>}

\* the discrete-size lines of a listing, tags being its format-tag lines
SizeLines(lines, tags) ==
    {i \in 1..Len(lines) : i \notin tags /\ size_match(lines[i]) # <<>>}

\* the frame-rate lines of a listing
FpsLines(lines, tags, sizes) ==
    {i \in 1..Len(lines) : i \notin tags /\ i \notin sizes /\ fps_search(lines[i]) # <<>>}

\* the last line of S before line i and after line from, 0 if there is none
LastBefore(S, from, i) == MaxOr0({j \in S : from < j /\ j < i})

\* C9: every candidate _get_camera_specs returns has the preferred tag; the
\* candidates are the frame-rate lines under that tag that follow a
\* discrete-size line, in listing order; none when the tag never appears.
C9_OnlyPreferredTag ==
    h_pc = "scanned" =>
        LET lines == splitlines(h_in.output)
            tags == TagLines(lines)
            sizes == SizeLines(lines, tags)
            tag_of == [i \in 1..Len(lines) |-> LastBefore(tags, 0, i)]
            size_of == [i \in 1..Len(lines) |-> LastBefore(sizes, tag_of[i], i)]
            rates == {i \in FpsLines(lines, tags, sizes) :
                         /\ tag_of[i] > 0
                         /\ fmt_match(lines[tag_of[i]]) = <<h_in.cam_codec>>
                         /\ size_of[i] > 0}
            order == Sorted(rates)
        IN  /\ \A c \in 1..Len(h_out) : h_out[c].format = h_in.cam_codec
            /\ Len(h_out) = Cardinality(rates)
            /\ \A c \in 1..Len(h_out) :
                /\ <<h_out[c].fps>> = fps_search(lines[order[c]])
                /\ << <<h_out[c].width, h_out[c].height>> >> = size_match(lines[size_of[order[c]]])
            /\ (\A i \in tags : fmt_match(lines[i]) # <<h_in.cam_codec>>) => h_out = <<>>

\* a listing with a candidate under the preferred tag and, under another tag,
\* a frame-rate line that follows a discrete-size line
C9_Witness ==
    /\ h_pc = "scanned"
    /\ h_out # <<>>
    /\ LET lines == splitlines(h_in.output)
           tags == TagLines(lines)
           sizes == SizeLines(lines, tags)
       IN  \E i \in FpsLines(lines, tags, sizes) :
               /\ LastBefore(tags, 0, i) > 0
               /\ fmt_match(lines[LastBefore(tags, 0, i)]) # <<h_in.cam_codec>>
               /\ LastBefore(sizes, LastBefore(tags, 0, i), i) > 0

\* the two paths of the first device of the worked example
ExamplePaths == <<strip(l_video0), strip(l_video1)>>

\* C10: with the example text and the example table construction yields two
\* records, the first get_camera("thermal") returns the first record with its
\* two paths, and a second get_camera("thermal") returns None.
C10_WorkedExample ==
    (/\ Constructed
     /\ config = <<ExampleTable>>
     /\ listing # <<>>
     /\ listing[1].raises = ""
     /\ listing[1].stdout = ExampleText) =>
        /\ pc = "ready"
        /\ Len(Info) = 2
        /\ Len(ReturnedFor("thermal")) <= 1
        /\ \A j \in 1..Len(ReturnedFor("thermal")) :
            /\ ReturnedFor("thermal")[j].cam = Info[1]
            /\ Info[1].paths = ExamplePaths
        /\ (last_call # <<>> /\ last_call[1].arg = "thermal") =>
               /\ last_call[1].exc = ""
               /\ last_call[1].ret = <<>> => Len(ReturnedFor("thermal")) = 1

\* C11: when the lister exits with a non-zero status or its executable is
\* missing, construction does not raise, the no-devices state is set and no
\* device is pooled, whatever the lister printed.
C11_ListerFailureIsNoDevices ==
    (listing # <<>> /\ (listing[1].raises # "" \/ listing[1].returncode # 0)) =>
        /\ exc = ""
        /\ pc = "ready"
        /\ NO_CAM_FOUND
        /\ stacks = <<>>

\* the first candidate path that exists, 0 if none does
FirstExisting(held) ==
    IF \A i \in 1..Len(held) : held[i].kind = "absent"
    THEN 0
    ELSE CHOOSE i \in 1..Len(held) :
             held[i].kind # "absent" /\ \A j \in 1..(i - 1) : held[j].kind = "absent"

\* C12: when no candidate path exists, or the first that exists is malformed,
\* __init__ raises RuntimeError before any discovery step: the lister and the
\* prober were never run, no stacks exist and no get_camera call was served;
\* otherwise the table is the one of the first path that exists.
C12_ConfigErrorBeforeDiscovery ==
    search_paths # <<>> =>
        LET held == search_paths[1]
            first == FirstExisting(held)
        IN  IF first = 0 \/ held[first].kind = "malformed"
            THEN /\ pc = "raised"
                 /\ exc = "RuntimeError"
                 /\ config = <<>>
                 /\ lister_calls = 0
                 /\ listing = <<>>
                 /\ probe_calls = <<>>
                 /\ stacks = <<>>
                 /\ last_call = <<>>
            ELSE /\ config = <<held[first].table>>
                 /\ exc # "RuntimeError"

\* the first path that exists is malformed and a later one holds a table
C12_Witness ==
    /\ search_paths # <<>>
    /\ FirstExisting(search_paths[1]) > 0
    /\ search_paths[1][FirstExisting(search_paths[1])].kind = "malformed"
    /\ \E i \in 1..NumSearchPaths : search_paths[1][i].kind = "json"
    /\ exc = "RuntimeError"

\* the elements of seq whose index is not in S, in order
Without(seq, S) ==
    LET kept == Sorted((1..Len(seq)) \ S) IN [k \in 1..Len(kept) |-> seq[kept[k]]]

\* C13: "/dev/video" path lines before the first header line are dropped:
\* _parse_detailed_info raises nothing and returns the records of the text
\* without these lines.
C13_LeadingPathIsDropped ==
    h_pc = "parsed" =>
        LET raw == splitlines(h_in.output)
            lines == StrippedLines(h_in.output)
            headers == HeaderLines(lines)
            leading == {i \in 1..Len(lines) :
                           /\ \A g \in headers : i < g
                           /\ lines[i] # <<>>
                           /\ StartsAt(strip(lines[i]), 1, s_dev_video)}
        IN  leading # {} =>
                /\ h_out.exc = ""
                /\ h_out.val = _parse_detailed_info(join_lines(Without(raw, leading))).val

\* C14: a record with empty paths is not the device at which construction
\* raises, and is pooled with no selected format and no device index.
C14_EmptyPathsAreTolerated ==
    \A i \in 1..Len(Info) :
        (pc \in {"best_param", "ready", "raised"} /\ Info[i].paths = <<>>) =>
            /\ ~(pc = "raised" /\ dev_i = i)
            /\ pc = "ready" =>
                   /\ Pooled(i)
                   /\ Info[i].cam_param = <<>>
                   /\ Info[i]._id = <<>>

\* the last character of the first path of a device
LastChar(device) == device.paths[1][Len(device.paths[1])]

\* C15: the device index is absent or the integer value of the last character
\* of the first path; a device with a codec preference whose first path ends
\* in no decimal digit is not the device at which construction raises, and
\* has no index.
C15_IndexIsLastDigitOrAbsent ==
    \A i \in 1..Len(Info) :
        pc \in {"best_param", "ready", "raised"} =>
            /\ Info[i]._id # <<>> =>
                   /\ Info[i].paths # <<>>
                   /\ LastChar(Info[i]) \in DigitChars
                   /\ Info[i]._id = <<digit_map[LastChar(Info[i])]>>
            /\ (/\ Info[i].type \in DOMAIN codec_preferences
                /\ Info[i].paths # <<>>
                /\ LastChar(Info[i]) \notin DigitChars) =>
                   /\ ~(pc = "raised" /\ dev_i = i)
                   /\ pc = "ready" => Info[i]._id = <<>> /\ Pooled(i)

\* what one turn of the loop does to its locals, by the kind of its line
ScanTurn(line, cam_codec, before, after) ==
    /\ after.i = before.i + 1
    /\ fmt_match(line) # <<>> =>
           /\ after.current_format = fmt_match(line)
           /\ after.current_res = <<>>
           /\ after.specs = before.specs
    /\ (fmt_match(line) = <<>> /\ before.current_format # <<cam_codec>>) =>
           /\ after.current_format = before.current_format
           /\ after.current_res = before.current_res
           /\ after.specs = before.specs
    /\ (fmt_match(line) = <<>> /\ before.current_format = <<cam_codec>>) =>
           /\ after.current_format = before.current_format
           /\ size_match(line) # <<>> =>
                  after.current_res = size_match(line) /\ after.specs = before.specs
           /\ size_match(line) = <<>> =>
                  /\ after.current_res = before.current_res
                  /\ after.specs =
                         IF before.current_res # <<>> /\ fps_search(line) # <<>>
                         THEN Append(before.specs,
                                     [format |-> cam_codec,
                                      width |-> before.current_res[1][1],
                                      height |-> before.current_res[1][2],
                                      fps |-> fps_search(line)[1]])
                         ELSE before.specs

\* the locals of the loop are those of the last format block: the tag of the
\* last format-tag line, and the size of the last discrete-size line after it
\* when that tag is the preferred one
ScanLocalsOfLastBlock ==
    h_pc \in {"scan", "scan_returned"} =>
        LET lines == splitlines(h_in.output)
            tags == TagLines(lines)
            sizes == SizeLines(lines, tags)
            tag == LastBefore(tags, 0, h_out.i)
            size == LastBefore(sizes, tag, h_out.i)
        IN  /\ h_out.current_format = IF tag = 0 THEN <<>> ELSE fmt_match(lines[tag])
            /\ h_out.current_res =
                   IF h_out.current_format = <<h_in.cam_codec>> /\ size > 0
                   THEN size_match(lines[size])
                   ELSE <<>>
            /\ \A c \in 1..Len(h_out.specs) : h_out.specs[c].format = h_in.cam_codec

\* the loop returns what _get_camera_specs returns
ScanReturnsSpecs ==
    h_pc = "scan_returned" =>
        h_out.specs = _get_camera_specs([raises |-> "", stdout |-> h_in.output], h_in.cam_codec)

\* C16: in every turn of the loop of _get_camera_specs a format-tag line sets
\* the tag, clears the resolution and emits nothing; a line under another tag
\* changes nothing; under the preferred tag a discrete-size line sets the
\* resolution and a frame-rate line emits a candidate only when a resolution
\* is set.  So the resolution is never the one of an earlier format block,
\* and a later block of the preferred tag emits with its own sizes.
C16_ScanTurns ==
    /\ [](ScanLocalsOfLastBlock /\ ScanReturnsSpecs)
    /\ [][(h_pc = "scan" /\ h_pc' = "scan") =>
             ScanTurn(splitlines(h_in.output)[h_out.i], h_in.cam_codec, h_out, h_out')]_vars

\* the loop came back to the preferred tag after a block of another tag, met
\* a frame-rate line before any size of the later block while an earlier
\* block of the preferred tag had a size, and emitted a candidate afterwards
\* with a size of the later block
C16_Witness ==
    /\ h_pc = "scan_returned"
    /\ LET lines == splitlines(h_in.output)
           tags == TagLines(lines)
           sizes == SizeLines(lines, tags)
           rates == FpsLines(lines, tags, sizes)
           prefers(t) == fmt_match(lines[t]) = <<h_in.cam_codec>>
       IN  \E t1, t2, t3 \in tags :
               /\ t1 < t2 /\ t2 < t3
               /\ prefers(t1) /\ ~prefers(t2) /\ prefers(t3)
               /\ \E s \in sizes : t1 < s /\ s < t2
               /\ \E f \in rates : t3 < f /\ LastBefore(sizes, t3, f) = 0
               /\ \E f \in rates :
                      /\ LastBefore(tags, 0, f) = t3
                      /\ LastBefore(sizes, t3, f) > 0
                      /\ h_out.specs[Len(h_out.specs)].width =
                             size_match(lines[LastBefore(sizes, t3, f)])[1][1]

\* C17: every probe is run on the first path of a device whose type has a
\* codec preference, with the preferred tag of that type, once per such
\* device; when it yields candidates the selected format of the device is the
\* first of them.
C17_FirstCandidateIsSelected ==
    /\ \A j \in 1..Len(probe_calls) :
        LET call == probe_calls[j]
            device == Info[call.dev]
        IN  /\ device.type \in DOMAIN codec_preferences
            /\ call.path = device.paths[1]
            /\ call.codec = codec_preferences[device.type]
            /\ call.specs # <<>> => device.cam_param = <<call.specs[1]>>
            /\ \A k \in 1..Len(probe_calls) : probe_calls[k].dev = call.dev => k = j
    /\ \A i \in 1..Len(Info) :
        /\ (i < dev_i /\ Info[i].type \in DOMAIN codec_preferences) =>
               \E j \in 1..Len(probe_calls) : probe_calls[j].dev = i
        /\ Info[i].cam_param # <<>> =>
               \E j \in 1..Len(probe_calls) :
                   probe_calls[j].dev = i /\ probe_calls[j].specs # <<>>

\* construction is over and a probe yielded a later candidate with a higher
\* frame rate and a larger size than the first
C17_Witness ==
    /\ pc = "ready"
    /\ \E j \in 1..Len(probe_calls) : \E c \in 2..Len(probe_calls[j].specs) :
        /\ probe_calls[j].specs[c].fps > probe_calls[j].specs[1].fps
        /\ probe_calls[j].specs[c].width > probe_calls[j].specs[1].width
        /\ Info[probe_calls[j].dev].cam_param = <<probe_calls[j].specs[1]>>

\* what a get_camera call does to the stacks, call being its record
ClaimEffect(before, after, call) ==
    IF call.ret # <<>>
    THEN /\ before # <<>> /\ after # <<>>
         /\ DOMAIN after[1] = DOMAIN before[1]
         /\ before[1][call.arg] # <<>>
         /\ call.ret[1] = before[1][call.arg][Len(before[1][call.arg])]
         /\ after[1][call.arg] = SubSeq(before[1][call.arg], 1, Len(before[1][call.arg]) - 1)
         /\ \A u \in DOMAIN before[1] \ {call.arg} : after[1][u] = before[1][u]
    ELSE after = before

\* C18: a get_camera call that returns a record removes it from the tail of
\* the stack of its type and leaves the other stacks and the remaining
\* records as they were; a call that returns none leaves the stacks as they
\* were; no call changes a record of the listing.
C18_ClaimRemovesOnlyTheTail ==
    [][pc = "ready" =>
          /\ last_call' # <<>>
          /\ ClaimEffect(stacks, stacks', last_call'[1])
          /\ detailed_info' = detailed_info]_vars

\* a record was claimed and a record is still pooled
C18_Witness ==
    /\ pc = "ready"
    /\ last_call # <<>>
    /\ last_call[1].ret # <<>>
    /\ \E t \in PoolLabels : stacks[1][t] # <<>>

\* every device of the listing has been classified
AllClassified == \A i \in 1..Len(Info) : Info[i].type # ""

\* the steps of construction follow each other in the order of __init__
StepOrder ==
    <<pc, pc'>> \in
        {<<"init", "discover">>, <<"init", "raised">>,
         <<"discover", "cam_type">>, <<"discover", "ready">>, <<"discover", "raised">>,
         <<"cam_type", "best_param">>,
         <<"best_param", "ready">>, <<"best_param", "raised">>}

\* C19: the lister runs once; every probe comes after the classification of
\* all devices and before the stacks are built, one device after the other;
\* the stacks are built once, after the last probe; get_camera is served only
\* once the stacks are built or the no-devices state is set, and runs neither
\* the lister nor a probe.
C19_DiscoveryIsSingleShotAndOrdered ==
    /\ [](/\ lister_calls <= 1
          /\ lister_calls = 1 <=> listing # <<>>
          /\ detailed_info # <<>> => lister_calls = 1
          /\ probe_calls # <<>> => lister_calls = 1 /\ AllClassified /\ pc # "cam_type"
          /\ \A j, k \in 1..Len(probe_calls) : j < k => probe_calls[j].dev < probe_calls[k].dev
          /\ stacks # <<>> => AllClassified /\ dev_i = Len(Info) + 1 /\ ~NO_CAM_FOUND
          /\ last_call # <<>> => pc = "ready" /\ (stacks # <<>> \/ NO_CAM_FOUND))
    /\ [][/\ pc' # pc => StepOrder
          /\ lister_calls' # lister_calls => pc = "discover"
          /\ (Len(Info') = Len(Info) /\ \E i \in 1..Len(Info) : Info'[i].type # Info[i].type) =>
                 pc = "cam_type"
          /\ probe_calls' # probe_calls => pc = "best_param" /\ stacks = <<>>
          /\ stacks' # stacks /\ stacks = <<>> => pc = "best_param" /\ dev_i > Len(Info)
          /\ last_call' # last_call =>
                 /\ stacks # <<>> \/ NO_CAM_FOUND
                 /\ lister_calls' = lister_calls
                 /\ probe_calls' = probe_calls
                 /\ listing' = listing]_vars

\* two devices were listed, classified and probed, the stacks were built and
\* a get_camera call was served
C19_Witness ==
    /\ lister_calls = 1
    /\ Len(probe_calls) = 2
    /\ stacks # <<>>
    /\ last_call # <<>>

RECURSIVE SumLen(_, _)
\* the number of records in the stacks of the labels S
SumLen(st, S) ==
    IF S = {}
    THEN 0
    ELSE LET t == CHOOSE x \in S : TRUE IN Len(st[t]) + SumLen(st, S \ {t})

\* C20: once construction is over, the stack of every type holds the first
\* records of that type, in discovery order, and the others were each
\* returned by one get_camera call of that type; the stacks and the returned
\* records together count the records discovered, and no stack ever grows.
C20_EachRecordInOnePlace ==
    /\ []((pc = "ready" /\ ~NO_CAM_FOUND) =>
            /\ stacks # <<>>
            /\ DOMAIN stacks[1] = PoolLabels
            /\ \A t \in PoolLabels :
                LET pool == DevicesOfType(t)
                    got == ReturnedFor(t)
                    left == Len(stacks[1][t])
                IN  /\ left + Len(got) = Len(pool)
                    /\ stacks[1][t] = SubSeq(pool, 1, left)
                    /\ \A j \in 1..Len(got) : got[j].cam = pool[Len(pool) - j + 1]
            /\ \A j \in 1..Len(returned) :
                returned[j].arg \in PoolLabels /\ returned[j].cam.type = returned[j].arg
            /\ SumLen(stacks[1], PoolLabels) + Len(returned) = Len(Info))
    /\ [][(stacks # <<>> /\ stacks' # <<>>) =>
             \A t \in PoolLabels : Len(stacks'[1][t]) <= Len(stacks[1][t])]_vars

\* of two equal records of one type, one was claimed and one is still pooled
C20_Witness ==
    /\ pc = "ready"
    /\ \E t \in PoolLabels :
        /\ Len(DevicesOfType(t)) = 2
        /\ DevicesOfType(t)[1] = DevicesOfType(t)[2]
        /\ Len(stacks[1][t]) = 1
        /\ Len(ReturnedFor(t)) = 1
====
